---------------------------- MODULE Spec2Model ----------------------------
(* Model of GPU/gpu_power_monitor2.py: GPUPowerMonitor sampling the GPU's   *)
(* power at a fixed nominal interval, attributing it to processes by memory *)
(* share, accumulating a per-process energy ledger and reporting at the end *)
(* of the run, with KeyboardInterrupt as the cancellation signal.           *)
(*                                                                          *)
(* Real numbers: the program's floats are modelled by the exact rationals   *)
(* they approximate, a pair <<n, d>> in lowest terms with d > 0.            *)
(* Strings: a name is a sequence of one-character strings, so that lower()  *)
(* and the substring test `in` are computed rather than assumed.            *)
(* Time: the clock counts multiples of the nominal sample interval, and     *)
(* duration_sec is given in the same unit.                                  *)
EXTENDS Integers, Sequences, FiniteSets, TLC

-----------------------------------------------------------------------------
(* Bounds of the model *)

\* largest duration_sec a run is started with (clock units)
MaxDuration == 2

-----------------------------------------------------------------------------
(* Program constants *)

SAMPLE_INTERVAL_MS == 10

\* joules per kWh, the literal 3_600_000 of report()
JoulesPerKWh == 3600000

-----------------------------------------------------------------------------
(* Exact arithmetic standing for the float operations *)

Abs(x) == IF x < 0 THEN -x ELSE x

RECURSIVE Gcd(_, _)
Gcd(a, b) == IF b = 0 THEN a ELSE Gcd(b, a % b)

\* the rational n/d in lowest terms, d > 0
Rat(n, d) ==
    LET s == IF d < 0 THEN -1 ELSE 1
        g == Gcd(Abs(n), Abs(d))
    IN  <<(s * n) \div g, (s * d) \div g>>

RZero == <<0, 1>>
RAdd(x, y) == Rat(x[1] * y[2] + y[1] * x[2], x[2] * y[2])
RMul(x, y) == Rat(x[1] * y[1], x[2] * y[2])
RDiv(x, y) == Rat(x[1] * y[2], x[2] * y[1])
RLeq(x, y) == x[1] * y[2] <= y[1] * x[2]
RInt(k)    == <<k, 1>>

-----------------------------------------------------------------------------
(* Strings as sequences of characters *)

\* str.lower() on one character of the alphabet in use
LowerChar(c) ==
    CASE c = "A" -> "a"
      [] c = "B" -> "b"
      [] c = "C" -> "c"
      [] c = "P" -> "p"
      [] c = "I" -> "i"
      [] c = "D" -> "d"
      [] OTHER   -> c

Lower(s) == [k \in DOMAIN s |-> LowerChar(s[k])]

\* Python's `sub in s` on strings
Contains(sub, s) ==
    \E k \in 0..(Len(s) - Len(sub)) : SubSeq(s, k + 1, k + Len(sub)) = sub

\* target_process = None (argparse default when -p is absent)
NoTarget == <<"None">>

\* truthiness of self.target_process: None and "" are both falsy
IsSet(target) == target # NoTarget /\ target # <<>>

\* self.target_process.lower() in name.lower()
NameMatches(target, name) == Contains(Lower(target), Lower(name))

\* mutant: the label without the pid
FallbackNameNoPid(pid) == <<"P", "I", "D", "_">>

\* f"PID_{p.pid}"
FallbackName(pid) == <<"P", "I", "D", "_", ToString(pid)>>

-----------------------------------------------------------------------------
(* The driver (pynvml): what the queries of the program may return *)

Pids == {1, 2, 3}

\* nvmlSystemGetProcessName(pid) when it succeeds; pids 1 and 2 run the same
\* executable and so share one display name
ProcName(pid) ==
    CASE pid = 1 -> <<"A", "b">>
      [] pid = 2 -> <<"A", "b">>
      [] OTHER   -> <<"c">>

\* p.usedGpuMemory: <<>> stands for None (value not available), <<m>> for m
MemValues == {<<>>, <<0>>, <<200>>, <<600>>}

ProcInfos == [pid : Pids, usedGpuMemory : MemValues]

Proc(pid, mem) == [pid |-> pid, usedGpuMemory |-> mem]

DistinctPids(l) == \A a, b \in DOMAIN l : a # b => l[a].pid # l[b].pid

\* every list of up to three processes with distinct pids, in any order
AllProcLists ==
    {l \in UNION {[1..n -> ProcInfos] : n \in 0..3} : DistinctPids(l)}

\* the process lists of the runs of several ticks
FewProcLists ==
    { <<>>,
      <<Proc(1, <<600>>), Proc(2, <<200>>)>>,
      <<Proc(3, <<>>)>> }

\* nvmlDeviceGetPowerUsage (milliwatts) and nvmlDeviceGetUtilizationRates.gpu
Readings == { [mw |-> 0, util |-> 0], [mw |-> 100000, util |-> 90] }

\* values of -p/--process: absent, empty, and three names
Targets == { NoTarget, <<>>, <<"a", "B">>, <<"p", "i", "d">>, <<"z">> }

\* values of -d/--duration (an int, possibly not positive)
Durations == (-1)..MaxDuration

-----------------------------------------------------------------------------
(* Pure parts of the program *)

\* self.sample_interval = SAMPLE_INTERVAL_MS / 1000.0
SampleInterval == Rat(SAMPLE_INTERVAL_MS, 1000)

\* nvmlDeviceGetPowerUsage(handle) / 1000.0
PowerW(mw) == Rat(mw, 1000)

\* mutant: (p.usedGpuMemory or 1)
OrOne(m) == IF m = <<>> THEN 1 ELSE IF m[1] = 0 THEN 1 ELSE m[1]

\* (p.usedGpuMemory or 0): None and 0 give 0, any other value itself
OrZero(m) == IF m = <<>> THEN 0 ELSE IF m[1] = 0 THEN 0 ELSE m[1]

RECURSIVE SumMem(_)
SumMem(l) == IF l = <<>> THEN 0 ELSE OrZero(Head(l).usedGpuMemory) + SumMem(Tail(l))

\* mutant: total_mem = sum(mem_values)
TotalMemUnguarded(l) == SumMem(l)

\* total_mem = sum(mem_values) or 1
TotalMem(l) == IF SumMem(l) = 0 THEN 1 ELSE SumMem(l)

\* mutant: the power share is not multiplied by the interval
DeltaNoInterval(pw, used_mem, total_mem) == RMul(pw, Rat(used_mem, total_mem))

\* mutant: the memory is not divided by total_mem
DeltaUndivided(pw, used_mem, total_mem) ==
    RMul(RMul(pw, RInt(used_mem)), SampleInterval)

\* mem_frac = used_mem / total_mem; proc_power = power_w * mem_frac;
\* the amount added is proc_power * self.sample_interval
Delta(pw, used_mem, total_mem) ==
    RMul(RMul(pw, Rat(used_mem, total_mem)), SampleInterval)

\* mutant: the comparison without lower()
SkipsCaseSensitive(target, name) == IsSet(target) /\ ~Contains(target, name)

\* the `continue` of the for loop: a target is set and is not in the name
Skips(target, name) == IsSet(target) /\ ~NameMatches(target, name)

\* position of the key in the dict (insertion order), 0 when absent
KeyIndex(led, name) ==
    IF \E k \in DOMAIN led : led[k].name = name
    THEN CHOOSE k \in DOMAIN led : led[k].name = name
    ELSE 0

\* process_energy[name], without creating the key
Energy(led, name) ==
    IF KeyIndex(led, name) = 0 THEN RZero ELSE led[KeyIndex(led, name)].e

\* mutant: = instead of +=
AddEnergyOverwrite(led, name, delta) ==
    IF KeyIndex(led, name) = 0
    THEN Append(led, [name |-> name, e |-> delta])
    ELSE [led EXCEPT ![KeyIndex(led, name)].e = delta]

\* self.process_energy[name] += delta on a defaultdict(float)
AddEnergy(led, name, delta) ==
    IF KeyIndex(led, name) = 0
    THEN Append(led, [name |-> name, e |-> RAdd(RZero, delta)])
    ELSE [led EXCEPT ![KeyIndex(led, name)].e = RAdd(@, delta)]

\* defaultdict.__missing__ alone: the key is created with 0.0
Touch(led, name) ==
    IF KeyIndex(led, name) = 0
    THEN Append(led, [name |-> name, e |-> RZero])
    ELSE led

\* mutant: any running process counts, matching or not
IsProcessRunningAny(l, res, target) == l # <<>>

\* is_process_running: res[k] tells whether the name lookup of l[k] succeeds
RECURSIVE IsProcessRunning(_, _, _)
IsProcessRunning(l, res, target) ==
    IF l = <<>> THEN FALSE
    ELSE IF Head(res) /\ NameMatches(target, ProcName(Head(l).pid)) THEN TRUE
    ELSE IsProcessRunning(Tail(l), Tail(res), target)

RECURSIVE TotalEnergyJ(_)
\* total_energy_j = sum(p * self.sample_interval for _, p, _ in self.samples)
TotalEnergyJ(smp) ==
    IF smp = <<>> THEN RZero
    ELSE RAdd(RMul(Head(smp)[2], SampleInterval), TotalEnergyJ(Tail(smp)))

\* mutant: the fraction is not scaled to a percentage
PctNoScale(e_j, total_energy_j) ==
    IF total_energy_j = RZero THEN RZero ELSE RDiv(e_j, total_energy_j)

\* pct = (e_j / total_energy_j * 100) if total_energy_j else 0
Pct(e_j, total_energy_j) ==
    IF total_energy_j = RZero THEN RZero
    ELSE RMul(RDiv(e_j, total_energy_j), RInt(100))

\* mutant: the lines are printed last key first
ReportLinesReversed(led, total_energy_j) ==
    [k \in DOMAIN led |->
        [name  |-> led[Len(led) + 1 - k].name,
         e_kwh |-> RDiv(led[Len(led) + 1 - k].e, RInt(JoulesPerKWh)),
         pct   |-> Pct(led[Len(led) + 1 - k].e, total_energy_j)]]

\* one printed line per item of process_energy, in dict order
ReportLines(led, total_energy_j) ==
    [k \in DOMAIN led |->
        [name  |-> led[k].name,
         e_kwh |-> RDiv(led[k].e, RInt(JoulesPerKWh)),
         pct   |-> Pct(led[k].e, total_energy_j)]]

\* save_csv: one row per sample, in order
CsvRows(smp) == [k \in DOMAIN smp |-> smp[k]]

\* mutant: report() reads a total out of the defaultdict and so creates a key
LedgerAfterReportIndexed(led) == Touch(led, <<"t", "o", "t", "a", "l">>)

\* process_energy as report() leaves it: .items() is read, no key is written
LedgerAfterReport(led) == led

-----------------------------------------------------------------------------
(* State *)

VARIABLES
    pc,              \* position of the program
    target_process,  \* self.target_process
    duration_sec,    \* args.duration
    nvml,            \* the driver: "off", "on" (nvmlInit) or "shutdown"
    exc,             \* the exception propagating out of run(), or "none"
    now,             \* time.time()
    start,           \* run(): start
    samples,         \* self.samples: <<timestamp, power_w, util>>
    process_energy,  \* self.process_energy, in insertion order
    power_w,         \* sample(): power_w
    procs,           \* sample(): procs
    total_mem,       \* sample(): total_mem
    i,               \* sample(): position of the for loop in procs
    summary,         \* what report() printed, <<>> before
    csv,             \* the rows save_csv() wrote, <<>> before
    history,         \* observation: per tick, the snapshot, the names used,
                     \* whether each lookup returned, and the name whose
                     \* update an interrupt cut short
    ctor_seen,       \* observation: the names the driver resolved at construction
    interrupted,     \* observation: a KeyboardInterrupt has been delivered
    ticksAtIntr      \* observation: ticks completed when run() caught it

vars == <<pc, target_process, duration_sec, nvml, exc, now, start, samples,
          process_energy, power_w, procs, total_mem, i, summary, csv,
          history, ctor_seen, interrupted, ticksAtIntr>>

config  == <<target_process, duration_sec>>
locals  == <<power_w, procs, total_mem, i>>
output  == <<summary, csv>>
ledger  == <<samples, process_energy>>
observe == <<history, ctor_seen, interrupted, ticksAtIntr>>

\* the command line is any target and duration; nothing is constructed yet
InitWith(durations) ==
    /\ pc = "ctor"
    /\ target_process \in Targets
    /\ duration_sec \in durations
    /\ nvml = "off"
    /\ exc = "none"
    /\ now = 0
    /\ start = 0
    /\ samples = <<>>
    /\ process_energy = <<>>
    /\ power_w = RZero
    /\ procs = <<>>
    /\ total_mem = 1
    /\ i = 1
    /\ summary = <<>>
    /\ csv = <<>>
    /\ history = <<>>
    /\ ctor_seen = {}
    /\ interrupted = FALSE
    /\ ticksAtIntr = -1

Init == InitWith(Durations)

-----------------------------------------------------------------------------
(* Actions *)

\* __init__: nvmlInit, empty samples and ledger, then the startup check of
\* the target, which ends the program with sys.exit(1) when it fails
Construct(lists) ==
    /\ pc = "ctor"
    /\ \E l \in lists : \E res \in [DOMAIN l -> BOOLEAN] :
          /\ ctor_seen' = {ProcName(l[k].pid) : k \in {j \in DOMAIN l : res[j]}}
          /\ pc' = IF IsSet(target_process) /\ ~IsProcessRunning(l, res, target_process)
                   THEN "exited"
                   ELSE "main"
    /\ nvml' = "on"
    /\ samples' = <<>>
    /\ process_energy' = <<>>
    /\ UNCHANGED <<config, exc, now, start, locals, output, history,
                   interrupted, ticksAtIntr>>

\* run(): start = time.time()
RunStart ==
    /\ pc = "main"
    /\ start' = now
    /\ pc' = "loop"
    /\ UNCHANGED <<config, nvml, exc, now, ledger, locals, output, observe>>

\* mutant: <= in the loop test
ContinuesInclusive(t, s, d) == t - s <= d

\* time.time() - start < duration_sec
Continues(t, s, d) == t - s < d

\* run(): while time.time() - start < duration_sec
LoopCheck ==
    /\ pc = "loop"
    /\ pc' = IF Continues(now, start, duration_sec) THEN "query" ELSE "report"
    /\ UNCHANGED <<config, nvml, exc, now, start, ledger, locals, output, observe>>

\* sample(), up to the append: the three driver queries, total_mem, the
\* timestamp and self.samples.append
Query(lists) ==
    /\ pc = "query"
    /\ \E r \in Readings : \E l \in lists :
          /\ power_w' = PowerW(r.mw)
          /\ procs' = l
          /\ total_mem' = TotalMem(l)
          /\ samples' = Append(samples, <<now, PowerW(r.mw), r.util>>)
          /\ history' = Append(history, [mw |-> r.mw, procs |-> l, names |-> <<>>, resolved |-> <<>>,
                                             pending |-> <<>>])
          /\ pc' = IF l = <<>> THEN "sleep" ELSE "proc"
    /\ i' = 1
    /\ UNCHANGED <<config, nvml, exc, now, start, process_energy, output,
                   ctor_seen, interrupted, ticksAtIntr>>

\* one iteration of the for loop with the display name `name`; `ok` tells
\* whether the lookup returned it
Iterate(name, ok) ==
    /\ process_energy' =
          IF Skips(target_process, name)
          THEN process_energy
          ELSE AddEnergy(process_energy, name,
                         Delta(power_w, OrZero(procs[i].usedGpuMemory), total_mem))
    /\ history' = [history EXCEPT ![Len(history)].names = Append(@, name),
                                  ![Len(history)].resolved = Append(@, ok)]
    /\ i' = i + 1
    /\ pc' = IF i = Len(procs) THEN "sleep" ELSE "proc"

\* sample(), one iteration: the name lookup succeeds or raises (name is
\* then PID_<pid>), the filter, and the update of the ledger
ProcStep ==
    /\ pc = "proc"
    /\ \E ok \in BOOLEAN :
          Iterate(IF ok THEN ProcName(procs[i].pid) ELSE FallbackName(procs[i].pid), ok)
    /\ UNCHANGED <<config, nvml, exc, now, start, samples, power_w, procs,
                   total_mem, output, ctor_seen, interrupted, ticksAtIntr>>

\* KeyboardInterrupt raised inside the try of the name lookup: the bare
\* except takes it like any lookup failure and the iteration goes on
InterruptInLookup ==
    /\ pc = "proc"
    /\ Iterate(FallbackName(procs[i].pid), FALSE)
    /\ interrupted' = TRUE
    /\ UNCHANGED <<config, nvml, exc, now, start, samples, power_w, procs,
                   total_mem, output, ctor_seen, ticksAtIntr>>

\* run(): time.sleep(self.sample_interval); the sleep lasts at least the
\* interval, possibly longer
Sleep ==
    /\ pc = "sleep"
    /\ \E dt \in {1, 2} : now' = now + dt
    /\ pc' = "loop"
    /\ UNCHANGED <<config, nvml, exc, start, ledger, locals, output, observe>>

\* mutant: the except clause returns from run()
AfterExceptReturn == "cleanup"

\* where run() goes once its except clause has taken a KeyboardInterrupt
AfterExcept == "report"

\* ticks whose sample() has returned
TicksCompleted == IF pc = "proc" THEN Len(samples) - 1 ELSE Len(samples)

\* KeyboardInterrupt raised anywhere else in the loop (the loop test, the
\* driver queries before the append, between two iterations of the for
\* loop, the sleep): caught by run()
Interrupt ==
    /\ pc \in {"loop", "query", "proc", "sleep"}
    /\ interrupted' = TRUE
    /\ ticksAtIntr' = TicksCompleted
    /\ pc' = AfterExcept
    /\ UNCHANGED <<config, nvml, exc, now, start, ledger, locals, output,
                   history, ctor_seen>>

\* KeyboardInterrupt raised inside the += of the ledger, after the
\* defaultdict has created the missing key and before the sum is stored
InterruptInUpdate ==
    /\ pc = "proc"
    /\ \E ok \in BOOLEAN :
          LET name == IF ok THEN ProcName(procs[i].pid) ELSE FallbackName(procs[i].pid)
          IN  /\ ~Skips(target_process, name)
              /\ process_energy' = Touch(process_energy, name)
              /\ history' = [history EXCEPT ![Len(history)].pending = <<name>>]
    /\ interrupted' = TRUE
    /\ ticksAtIntr' = TicksCompleted
    /\ pc' = AfterExcept
    /\ UNCHANGED <<config, nvml, exc, now, start, samples, locals, output,
                   ctor_seen>>

\* a driver query of sample() (power, utilization or process list) raises
\* NVMLError, before anything of the tick has been recorded
DriverError ==
    /\ pc = "query"
    /\ exc' = "NVMLError"
    /\ pc' = "raised"
    /\ UNCHANGED <<config, nvml, now, start, ledger, locals, output, observe>>

\* mutant: a bare except in run()
ExceptCatchesAny(e) == TRUE

\* run(): except KeyboardInterrupt
ExceptCatches(e) == e = "KeyboardInterrupt"

\* the exception meets the except clause of run(): taken there, or it leaves
\* run() and reaches the finally of main
Propagate ==
    /\ pc = "raised"
    /\ pc' = IF ExceptCatches(exc) THEN AfterExcept ELSE "cleanup"
    /\ exc' = IF ExceptCatches(exc) THEN "none" ELSE exc
    /\ UNCHANGED <<config, nvml, now, start, ledger, locals, output, observe>>

\* report(time.time() - start), save_csv() included
Report ==
    /\ pc = "report"
    /\ summary' = <<[duration       |-> now - start,
                     total_energy_j |-> TotalEnergyJ(samples),
                     lines          |-> ReportLines(process_energy, TotalEnergyJ(samples))]>>
    /\ csv' = <<CsvRows(samples)>>
    /\ process_energy' = LedgerAfterReport(process_energy)
    /\ pc' = "cleanup"
    /\ UNCHANGED <<config, nvml, exc, now, start, samples, locals, observe>>

\* main: finally: monitor.cleanup()
Cleanup ==
    /\ pc = "cleanup"
    /\ nvml' = "shutdown"
    /\ pc' = IF exc = "none" THEN "done" ELSE "crashed"
    /\ UNCHANGED <<config, exc, now, start, ledger, locals, output, observe>>

Next ==
    \/ Construct(AllProcLists)
    \/ RunStart
    \/ LoopCheck
    \/ Query(FewProcLists)
    \/ ProcStep
    \/ InterruptInLookup
    \/ Sleep
    \/ Interrupt
    \/ InterruptInUpdate
    \/ DriverError
    \/ Propagate
    \/ Report
    \/ Cleanup

Spec == Init /\ [][Next]_vars

\* a run of one tick on any snapshot
InitOneTick == InitWith({1})

NextOneTick ==
    \/ Construct(AllProcLists)
    \/ RunStart
    \/ LoopCheck
    \/ Query(AllProcLists)
    \/ ProcStep
    \/ InterruptInLookup
    \/ Sleep
    \/ Interrupt
    \/ InterruptInUpdate
    \/ DriverError
    \/ Propagate
    \/ Report
    \/ Cleanup

SpecOneTick == InitOneTick /\ [][NextOneTick]_vars

\* a Snapshot Source that may also report a negative memory value, which
\* NVML's unsigned field never holds
SignedMemValues == {<<>>, <<-200>>, <<600>>}

SignedProcLists ==
    {l \in UNION {[1..n -> [pid : Pids, usedGpuMemory : SignedMemValues]] : n \in 0..2} :
        DistinctPids(l)}

\* a run of one tick on such a source
NextSignedMemory ==
    \/ Construct(AllProcLists)
    \/ RunStart
    \/ LoopCheck
    \/ Query(SignedProcLists)
    \/ ProcStep
    \/ InterruptInLookup
    \/ Sleep
    \/ Interrupt
    \/ InterruptInUpdate
    \/ DriverError
    \/ Propagate
    \/ Report
    \/ Cleanup

SpecSignedMemory == InitOneTick /\ [][NextSignedMemory]_vars

-----------------------------------------------------------------------------
(* What the specification says of one tick, stated on the observations *)

\* the label of a process whose name could not be resolved
PidKey(pid) == <<"P", "I", "D", "_", ToString(pid)>>

AllNames == {ProcName(p) : p \in Pids} \cup {PidKey(p) : p \in Pids}

\* used_memory_bytes, 0 when unavailable
UsedMemory(p) == IF p.usedGpuMemory = <<>> THEN 0 ELSE p.usedGpuMemory[1]

RECURSIVE MemorySum(_, _)
MemorySum(l, k) == IF k = 0 THEN 0 ELSE UsedMemory(l[k]) + MemorySum(l, k - 1)

\* power_watts * interval_sec of the tick h, in joules
TickEnergy(h) == Rat(h.mw * SAMPLE_INTERVAL_MS, 1000 * 1000)

\* energy_delta of the k-th process of the tick h: its memory share of the
\* tick's energy, the denominator being the memory of all listed processes
Share(h, k) ==
    LET total == MemorySum(h.procs, Len(h.procs))
    IN  RMul(TickEnergy(h), Rat(UsedMemory(h.procs[k]), IF total = 0 THEN 1 ELSE total))

\* a name passes the filter: no filter, or the filter is in the name
Included(target, name) == ~IsSet(target) \/ Contains(Lower(target), Lower(name))

\* sum of the shares of the processes 1..k of tick h that were given `name`
RECURSIVE NamedShare(_, _, _)
NamedShare(h, name, k) ==
    IF k = 0 THEN RZero
    ELSE RAdd(IF h.names[k] = name THEN Share(h, k) ELSE RZero,
              NamedShare(h, name, k - 1))

\* what the tick h attributes to `name` under the filter
Attributed(h, name, target) ==
    IF Included(target, name) THEN NamedShare(h, name, Len(h.names)) ELSE RZero

\* the attributions to `name` of the first n ticks
RECURSIVE AttributedOver(_, _, _)
AttributedOver(name, target, n) ==
    IF n = 0 THEN RZero
    ELSE RAdd(Attributed(history[n], name, target), AttributedOver(name, target, n - 1))

\* the for loop of the tick ran over every listed process
TickComplete(h) == Len(h.names) = Len(h.procs)

RECURSIVE LedgerSum(_)
LedgerSum(led) == IF led = <<>> THEN RZero ELSE RAdd(Head(led).e, LedgerSum(Tail(led)))

IsPrefix(s, t) == Len(s) <= Len(t) /\ SubSeq(t, 1, Len(s)) = s

-----------------------------------------------------------------------------
(* Claims *)

\* C1 (as claimed): when run() has caught a cancellation issued after N
\* completed ticks, report() starts from exactly N samples and every ledger
\* value is the sum of that name's attributions over the first N ticks.
CancellationIntegrity ==
    (pc = "report" /\ ticksAtIntr >= 0) =>
        /\ Len(samples) = ticksAtIntr
        /\ \A name \in AllNames :
              Energy(process_energy, name)
                  = AttributedOver(name, target_process, ticksAtIntr)

\* C2 (as claimed): whenever run() has left the loop and entered report(),
\* every recorded sample belongs to a tick whose for loop ran to its end.
NoPartialTickAtReport ==
    pc = "report" => \A k \in DOMAIN history : TickComplete(history[k])

\* C3 (as claimed): the step that delivers a KeyboardInterrupt inside the
\* sampling loop leads to report(), and no sample is recorded after it.
InterruptStopsLoop ==
    [][ /\ (~interrupted /\ interrupted') => pc' = "report"
        /\ interrupted => samples' = samples ]_vars

CancelReported ==
    (ticksAtIntr >= 0 /\ pc \in {"cleanup", "done", "crashed"}) =>
        /\ exc = "none"
        /\ summary # <<>>
        /\ csv = <<samples>>
        /\ summary[1].total_energy_j = TotalEnergyJ(samples)
        /\ Len(summary[1].lines) = Len(process_energy)
        /\ \A k \in DOMAIN process_energy :
              /\ summary[1].lines[k].name = process_energy[k].name
              /\ summary[1].lines[k].e_kwh
                    = Rat(process_energy[k].e[1], process_energy[k].e[2] * JoulesPerKWh)

NothingLost ==
    interrupted' =>
        /\ IsPrefix(samples, samples')
        /\ \A k \in DOMAIN process_energy :
              /\ k \in DOMAIN process_energy'
              /\ process_energy'[k].name = process_energy[k].name
              /\ RLeq(process_energy[k].e, process_energy'[k].e)

\* C4: a run whose except clause took a cancellation never ends without
\* report(): the summary and the log are those of the samples and ledger as
\* they stand, and from the delivery on no sample and no ledger value is
\* dropped or reset.
CancelAlwaysReports == []CancelReported /\ [][NothingLost]_vars

\* C4 witness: a cancelled run that ended after reporting a non-empty ledger
CancelledRunReported ==
    /\ pc = "done"
    /\ ticksAtIntr >= 1
    /\ Len(samples) >= 1
    /\ process_energy # <<>>
    /\ Len(summary[1].lines) >= 1

\* C5: with a target set of which no name resolved at construction contains
\* it (case-insensitively), the program ends in the constructor: run() is
\* never entered and samples and process_energy stay empty.
StartupValidation ==
    (/\ pc # "ctor"
     /\ IsSet(target_process)
     /\ \A n \in ctor_seen : ~Contains(Lower(target_process), Lower(n))) =>
        /\ pc = "exited"
        /\ samples = <<>>
        /\ process_energy = <<>>
        /\ history = <<>>
        /\ summary = <<>>

\* C5 witness: processes were running, none matched, the program exited
ExitedWithOthersRunning ==
    /\ pc = "exited"
    /\ ctor_seen # {}
    /\ IsSet(target_process)

\* the first tick has just ended: the ledger holds that tick's deltas alone
FirstTickDone == pc = "sleep" /\ Len(history) = 1

NoZeroMemory(l) == \A k \in DOMAIN l : UsedMemory(l[k]) # 0

\* the deltas of the tick h sum to its energy, each name holding the shares
\* of the processes listed under it
Conserved(h) ==
    /\ LedgerSum(process_energy) = TickEnergy(h)
    /\ \A name \in AllNames :
          Energy(process_energy, name) = NamedShare(h, name, Len(h.names))

\* C6 (as claimed): after a tick with no filter set and every listed process
\* of non-zero memory, the deltas sum to power_w * sample_interval.
ConservationPerTick ==
    (FirstTickDone /\ ~IsSet(target_process) /\ NoZeroMemory(history[1].procs)) =>
        Conserved(history[1])

\* C6 (amended): the same for a snapshot that lists at least one process.
ConservationPerListedTick ==
    (/\ FirstTickDone
     /\ ~IsSet(target_process)
     /\ history[1].procs # <<>>
     /\ NoZeroMemory(history[1].procs)) =>
        Conserved(history[1])

\* C6 witness: 100 W, 600 and 200 of memory, interval 0.01: 0.75, 0.25, 1.0
ConcreteScenario ==
    /\ FirstTickDone
    /\ ~IsSet(target_process)
    /\ history[1].mw = 100000
    /\ history[1].procs = <<Proc(1, <<600>>), Proc(3, <<200>>)>>
    /\ history[1].names = <<ProcName(1), ProcName(3)>>
    /\ Energy(process_energy, ProcName(1)) = <<3, 4>>
    /\ Energy(process_energy, ProcName(3)) = <<1, 4>>
    /\ LedgerSum(process_energy) = <<1, 1>>

AllTicksComplete == \A k \in DOMAIN history : TickComplete(history[k])

\* C7 (as claimed): with no filter, after completed ticks the ledger's sum
\* is the total energy report() derives from the samples.
LedgerMatchesSamples ==
    (~IsSet(target_process) /\ AllTicksComplete) =>
        LedgerSum(process_energy) = TotalEnergyJ(samples)

\* C7 (amended): the same when every tick's snapshot listed processes whose
\* memory sums to more than zero.
LedgerMatchesSamplesWithMemory ==
    (/\ ~IsSet(target_process)
     /\ AllTicksComplete
     /\ \A k \in DOMAIN history :
           MemorySum(history[k].procs, Len(history[k].procs)) > 0) =>
        LedgerSum(process_energy) = TotalEnergyJ(samples)

\* C7 witness: two completed ticks with memory, unfiltered, about to report
TwoTicksAgree ==
    /\ pc = "report"
    /\ ~IsSet(target_process)
    /\ Len(history) = 2
    /\ AllTicksComplete
    /\ \A k \in DOMAIN history :
          /\ MemorySum(history[k].procs, Len(history[k].procs)) > 0
          /\ history[k].mw > 0
    /\ LedgerSum(process_energy) = <<2, 1>>

\* C8: in every state the ledger's sum is at most the energy of the
\* recorded samples.
UpperBound == RLeq(LedgerSum(process_energy), TotalEnergyJ(samples))

\* C8 witness: a filtered run reporting a ledger strictly between 0 and the
\* sample-derived total
FilteredBelowTotal ==
    /\ pc = "report"
    /\ IsSet(target_process)
    /\ Len(samples) = 2
    /\ LedgerSum(process_energy) # RZero
    /\ LedgerSum(process_energy) # TotalEnergyJ(samples)

\* C9: after a tick with a filter string, every key of the ledger contains
\* the filter (case-insensitively) and holds exactly the shares its
\* processes get with no filter, the denominator being all listed memory.
FilterNarrowing ==
    (FirstTickDone /\ target_process # NoTarget) =>
        /\ \A k \in DOMAIN process_energy :
              Contains(Lower(target_process), Lower(process_energy[k].name))
        /\ \A name \in AllNames :
              Contains(Lower(target_process), Lower(name)) =>
                 Energy(process_energy, name)
                     = NamedShare(history[1], name, Len(history[1].names))

\* C9 witness: a filtered tick that kept one process and dropped another,
\* both with memory
FilterKeptSome ==
    /\ FirstTickDone
    /\ IsSet(target_process)
    /\ NoZeroMemory(history[1].procs)
    /\ LedgerSum(process_energy) # RZero
    /\ LedgerSum(process_energy) # TickEnergy(history[1])

\* the name lookup of the k-th process of tick h did not return
FellBack(h, k) == ~h.resolved[k]

\* every name but `key` holds what the tick attributes to it
OthersUnaffected(h, key) ==
    \A name \in AllNames \ {key} :
        Energy(process_energy, name) = Attributed(h, name, target_process)

\* C10 (as claimed): a process whose name lookup failed holds its share
\* under PID_<pid>, and every other name holds what it would hold anyway.
FallbackNaming ==
    FirstTickDone =>
        \A k \in DOMAIN history[1].procs :
            FellBack(history[1], k) =>
                /\ Energy(process_energy, PidKey(history[1].procs[k].pid))
                      = Share(history[1], k)
                /\ OthersUnaffected(history[1], PidKey(history[1].procs[k].pid))

\* C10 (amended): it holds its share under PID_<pid> when no filter is set
\* or PID_<pid> contains the filter, and is skipped (no key) otherwise.
FallbackNamingUnderFilter ==
    FirstTickDone =>
        \A k \in DOMAIN history[1].procs :
            FellBack(history[1], k) =>
                LET key == PidKey(history[1].procs[k].pid)
                IN  /\ Included(target_process, key) =>
                          Energy(process_energy, key) = Share(history[1], k)
                    /\ ~Included(target_process, key) =>
                          KeyIndex(process_energy, key) = 0
                    /\ OthersUnaffected(history[1], key)

\* C10 witness: one lookup failed, one succeeded, both were given energy
FallbackAndNamed ==
    /\ FirstTickDone
    /\ Len(history[1].procs) = 2
    /\ FellBack(history[1], 1)
    /\ ~FellBack(history[1], 2)
    /\ Energy(process_energy, PidKey(history[1].procs[1].pid)) = <<3, 4>>
    /\ Energy(process_energy, history[1].names[2]) = <<1, 4>>

DriverErrorLeavesNoTrace ==
    exc = "NVMLError" =>
        /\ pc \in {"raised", "cleanup", "crashed"}
        /\ summary = <<>>
        /\ csv = <<>>
        /\ Len(samples) = Len(history)
        /\ AllTicksComplete
        /\ \A name \in AllNames :
              Energy(process_energy, name)
                  = AttributedOver(name, target_process, Len(history))

DriverErrorPropagates ==
    /\ pc = "raised" => (pc' = "cleanup" /\ exc' = "NVMLError")
    /\ exc' = "NVMLError" => (samples' = samples /\ process_energy' = process_energy)

\* C11: an NVMLError raised by a query of sample() is not taken by run(): it
\* goes to the finally of main with no report, and the failed tick has added
\* no sample and changed no ledger value (samples and ledger are those of
\* the ticks completed before it).
DriverErrorAborts == []DriverErrorLeavesNoTrace /\ [][DriverErrorPropagates]_vars

\* C11 witness: the second tick's query failed after a tick that was recorded
CrashedAfterOneTick ==
    /\ pc = "crashed"
    /\ exc = "NVMLError"
    /\ Len(samples) = 1
    /\ process_energy # <<>>
    /\ LedgerSum(process_energy) # RZero

\* a memory value with missing and negative values taken as 0
Clamped(p) ==
    IF p.usedGpuMemory = <<>> THEN 0
    ELSE IF p.usedGpuMemory[1] < 0 THEN 0 ELSE p.usedGpuMemory[1]

RECURSIVE ClampedSum(_, _)
ClampedSum(l, k) == IF k = 0 THEN 0 ELSE Clamped(l[k]) + ClampedSum(l, k - 1)

\* the share of the k-th process of tick h on clamped memory values
ClampedShare(h, k) ==
    LET total == ClampedSum(h.procs, Len(h.procs))
    IN  RMul(TickEnergy(h), Rat(Clamped(h.procs[k]), IF total = 0 THEN 1 ELSE total))

RECURSIVE ClampedNamedShare(_, _, _)
ClampedNamedShare(h, name, k) ==
    IF k = 0 THEN RZero
    ELSE RAdd(IF h.names[k] = name THEN ClampedShare(h, k) ELSE RZero,
              ClampedNamedShare(h, name, k - 1))

\* the ledger after the tick h holds the shares on clamped memory, none
\* negative
LedgerOnClampedMemory(h) ==
    /\ \A k \in DOMAIN process_energy : RLeq(RZero, process_energy[k].e)
    /\ \A name \in AllNames :
          Energy(process_energy, name)
              = IF Included(target_process, name)
                THEN ClampedNamedShare(h, name, Len(h.names))
                ELSE RZero

NoNegativeMemory(l) ==
    \A k \in DOMAIN l : l[k].usedGpuMemory = <<>> \/ l[k].usedGpuMemory[1] >= 0

LedgerGrows ==
    \A k \in DOMAIN process_energy :
        /\ k \in DOMAIN process_energy'
        /\ process_energy'[k].name = process_energy[k].name
        /\ RLeq(process_energy[k].e, process_energy'[k].e)

\* C13: no step of a run removes a key of process_energy or lowers the
\* energy stored under it; a step only adds to keys or creates new ones.
MonotoneLedger == [][LedgerGrows]_vars

\* C13 witness: the second tick added to the first tick's key and created
\* a new one
SecondTickAddedAndCreated ==
    /\ pc = "report"
    /\ Len(history) = 2
    /\ AllTicksComplete
    /\ Len(process_energy) = 2
    /\ process_energy[1] = [name |-> ProcName(1), e |-> <<7, 4>>]
    /\ process_energy[2] = [name |-> PidKey(2), e |-> <<1, 4>>]

\* the snapshot of the latest tick lists no memory at all
LastSnapshotWithoutMemory ==
    /\ history # <<>>
    /\ MemorySum(history[Len(history)].procs, Len(history[Len(history)].procs)) = 0

\* C14: the divisor total_mem is never 0; it is 1 when the listed memory
\* sums to 0 (zero or missing values, or no process), and the tick then
\* gives every process a delta of exactly 0.
ZeroMemorySafe ==
    /\ total_mem # 0
    /\ LastSnapshotWithoutMemory => total_mem = 1
    /\ (FirstTickDone /\ LastSnapshotWithoutMemory) =>
          \A k \in DOMAIN process_energy : process_energy[k].e = RZero

\* C14 witness: a tick at 100 W on two processes with zero and missing memory
ZeroAndMissingTick ==
    /\ FirstTickDone
    /\ history[1].mw = 100000
    /\ history[1].procs = <<Proc(1, <<0>>), Proc(3, <<>>)>>
    /\ total_mem = 1
    /\ Len(process_energy) = 2
    /\ process_energy[1].e = RZero
    /\ process_energy[2].e = RZero

RECURSIVE SampledEnergy(_)
SampledEnergy(n) ==
    IF n = 0 THEN RZero ELSE RAdd(TickEnergy(history[n]), SampledEnergy(n - 1))

\* energy / total * 100, and 0 when the total is 0
PercentOf(e, total) ==
    IF total[1] = 0 THEN RZero ELSE Rat(e[1] * 100 * total[2], e[2] * total[1])

\* C16: every line report() prints carries energy / total_energy * 100 for
\* a non-zero sample-derived total and 0 for a total of 0, the ledger having
\* entries or not.
PercentOfTotal ==
    summary # <<>> =>
        /\ Len(summary[1].lines) = Len(process_energy)
        /\ \A k \in DOMAIN process_energy :
              summary[1].lines[k].pct
                  = PercentOf(process_energy[k].e, SampledEnergy(Len(history)))

\* C16 witness: a report with ledger entries although every sampled power
\* was 0
EntriesWithoutEnergy ==
    /\ summary # <<>>
    /\ Len(history) = 2
    /\ Len(summary[1].lines) >= 2
    /\ summary[1].total_energy_j = RZero
    /\ \A k \in DOMAIN summary[1].lines : summary[1].lines[k].pct = RZero

-----------------------------------------------------------------------------
(* report() called a second time                                           *)

\* report(duration) called again on the monitor that has just reported,
\* with the duration of the first call
ReportAgain ==
    /\ pc = "cleanup"
    /\ Len(summary) = 1
    /\ summary' = Append(summary,
                     [duration       |-> summary[1].duration,
                      total_energy_j |-> TotalEnergyJ(samples),
                      lines          |-> ReportLines(process_energy, TotalEnergyJ(samples))])
    /\ csv' = Append(csv, CsvRows(samples))
    /\ process_energy' = LedgerAfterReport(process_energy)
    /\ UNCHANGED <<pc, config, nvml, exc, now, start, samples, locals, observe>>

NextReportTwice == Next \/ ReportAgain

\* runs in which a client of the monitor may call report() once more
SpecReportTwice == Init /\ [][NextReportTwice]_vars

SecondReportEqual ==
    Len(summary) = 2 =>
        /\ summary[2].total_energy_j = summary[1].total_energy_j
        /\ summary[2].lines = summary[1].lines

ReportReadsOnly ==
    summary' # summary =>
        /\ samples' = samples
        /\ process_energy' = process_energy

-----------------------------------------------------------------------------
(* Order of the report                                                     *)

\* the display names of the first n ticks in the order the loop met them,
\* the name of an update cut short by an interrupt last in its tick
RECURSIVE Observed(_)
Observed(n) ==
    IF n = 0 THEN <<>>
    ELSE Observed(n - 1) \o history[n].names \o history[n].pending

\* position of the first occurrence of name in seq, 0 if there is none
FirstSeen(seq, name) ==
    IF \E p \in DOMAIN seq : seq[p] = name
    THEN CHOOSE p \in DOMAIN seq :
            /\ seq[p] = name
            /\ \A q \in 1..(p - 1) : seq[q] # name
    ELSE 0

\* C18: the lines of report() are in the order in which their names were
\* first observed: of two listed names, the one met in an earlier tick, or
\* earlier in the same snapshot, is printed first.
ReportInFirstSeenOrder ==
    summary # <<>> =>
        LET seen  == Observed(Len(history))
            lines == summary[1].lines
        IN  \A a, b \in DOMAIN lines :
                /\ FirstSeen(seen, lines[a].name) > 0
                /\ a < b =>
                      FirstSeen(seen, lines[a].name) < FirstSeen(seen, lines[b].name)

\* C18 witness: a report of two names, the second tick bringing a new name
\* twice
NewNameInSecondTick ==
    /\ summary # <<>>
    /\ Len(history) = 2
    /\ history[1].names = <<ProcName(3)>>
    /\ history[2].names = <<ProcName(1), ProcName(2)>>
    /\ Len(summary[1].lines) = 2
    /\ summary[1].lines[1].name = ProcName(3)
    /\ summary[1].lines[2].name = ProcName(1)

-----------------------------------------------------------------------------
(* Loop bound and termination                                              *)

\* positions at which the program has a next step, and those where it has
\* ended
Running == {"ctor", "main", "loop", "query", "proc", "sleep", "raised",
            "report", "cleanup"}
Ended == {"exited", "done", "crashed"}

\* control leaves the position it is at
Advance == pc \in Running /\ pc' \in (Running \cup Ended) \ {pc}

\* the interpreter keeps executing: every call returns, so control does not
\* rest for ever at a position where the program has a next step (Next is
\* enabled exactly at the positions of Running)
SpecFair == Init /\ [][Next]_vars /\ WF_pc(Advance)

\* a tick starts only from a loop check that read an elapsed time strictly
\* below duration_sec
TickStartsBelowDuration ==
    (pc = "loop" /\ pc' = "query") => now - start < duration_sec

\* no tick when duration_sec is not positive
NoTickWithoutDuration ==
    duration_sec <= 0 => (samples = <<>> /\ history = <<>>)

\* report() has run at most once, and once when the run ended without error
ReportedOnce ==
    /\ Len(summary) <= 1
    /\ pc = "done" => Len(summary) = 1
    /\ pc = "crashed" => exc # "none"

\* from report() on, no sample is recorded and the ledger keeps its values
FrozenAfterReport ==
    summary # <<>> =>
        /\ summary' = summary
        /\ samples' = samples
        /\ process_energy' = process_energy

\* C19: a tick starts only when the elapsed time read at the loop check is
\* strictly below duration_sec (none for duration_sec <= 0); a started run
\* whose driver calls all return ends having executed report() exactly
\* once, and after report() no sample is recorded and no ledger value
\* changes.
LoopBoundAndTermination ==
    /\ [][TickStartsBelowDuration]_vars
    /\ []NoTickWithoutDuration
    /\ []ReportedOnce
    /\ [][FrozenAfterReport]_vars
    /\ (pc = "main") ~> (pc = "crashed" \/ (pc = "done" /\ Len(summary) = 1))

\* C19 witness: an uncancelled run of duration 2 ended after two ticks and
\* one report
RanToCompletion ==
    /\ pc = "done"
    /\ ~interrupted
    /\ duration_sec = 2
    /\ Len(samples) = 2
    /\ now - start = 2
    /\ Len(summary) = 1

-----------------------------------------------------------------------------
(* Release of the driver                                                   *)

\* C20 (as claimed): whichever way the program ends after nvmlInit, normal
\* completion, cancellation, a driver error or the startup failure of the
\* target check, cleanup() has shut the driver down.
DriverReleasedAtEnd == pc \in Ended => nvml = "shutdown"

=============================================================================
